---- MODULE Spec2Model ----
(***************************************************************************)
(* Model of the generative design tool: the AIService adapter (both copies *)
(* of aiService found in the repository), and the useDesignGeneration hook *)
(* that fans Adapter calls out and stores the resulting assets.            *)
(***************************************************************************)
EXTENDS Integers, Sequences, FiniteSets, TLC

\* ------------------------------------------------------------------------
\* Bounds of the model
\* ------------------------------------------------------------------------
MaxBrand == 4      \* longest StyleProfile.colors list drawn
MaxGen == 4        \* longest AI-returned colors list drawn
MaxCalls == 3      \* Adapter method invocations per AIService instance
MaxIds == 4        \* identifiers uuidv4 hands out in one session

\* ------------------------------------------------------------------------
\* Values
\* ------------------------------------------------------------------------
Null == "null"                 \* JavaScript null / undefined (strings only)
Undefined == [t |-> "undefined"]
JNull == [t |-> "null"]        \* JSON.parse("null")
JZero == [t |-> "num", n |-> 0]   \* JSON.parse("0")
JObj(fields) == [t |-> "obj", f |-> fields]

\* JavaScript truthiness of a parsed JSON value / optional field
Truthy(v) == v.t = "obj"
\* a value is present when it is neither null nor undefined
Present(v) == v.t \notin {"null", "undefined"}

AssetTypes == {"copy", "image", "palette", "layout", "component"}
Hexes == {"#c1", "#c2", "#c3"}
Tones == {"minimal", "luxurious", "playful", "professional", "bold"}

SeqsUpTo(S, n) == UNION {[1..k -> S] : k \in 0..n}

\* ------------------------------------------------------------------------
\* Exceptions and outcomes of a method: it returns a value or throws
\* ------------------------------------------------------------------------
ErrorOf(m) == [isError |-> TRUE, message |-> m]
NonError == [isError |-> FALSE, message |-> ""]
NoExc == [isError |-> FALSE, message |-> "-"]

Returned(r, io) == [threw |-> FALSE, exc |-> NoExc, ret |-> r, io |-> io]
Threw(e, io) == [threw |-> TRUE, exc |-> e, ret |-> Undefined, io |-> io]

\* GenerationResult: data and error are optional fields
Failure(msg) == [success |-> FALSE, data |-> Undefined, error |-> msg]
Success(d) == [success |-> TRUE, data |-> d, error |-> Null]

\* `error instanceof Error ? error.message : "Unknown error occurred"`
CatchMessage(e) == IF e.isError THEN e.message ELSE "Unknown error occurred"

\* ------------------------------------------------------------------------
\* The hosted API: what one chat-completion / image call can do
\* ------------------------------------------------------------------------
ApiFault(m) == [k |-> "fault", exc |-> ErrorOf(m)]
ApiThrowsNonError == [k |-> "fault", exc |-> NonError]
ApiMissing == [k |-> "missing"]          \* no choices / content undefined
ApiEmpty == [k |-> "empty"]              \* content = ""
ApiProse == [k |-> "prose"]              \* content is not JSON
ApiJson(v) == [k |-> "json", v |-> v]    \* content is the JSON text of v
ApiUrl == [k |-> "url"]                  \* images.generate returned a url

\* JSON.parse(content): a value, or a SyntaxError
JSONparse(api) ==
    IF api.k = "json" THEN Returned(api.v, 0)
    ELSE Threw(ErrorOf("Unexpected token"), 0)

\* `if (!content) throw new Error(m)` followed by JSON.parse(content)
ContentOf(api, m) ==
    IF api.k = "fault" THEN Threw(api.exc, 1)
    ELSE IF api.k \in {"missing", "empty", "url"} THEN Threw(ErrorOf(m), 1)
    ELSE LET p == JSONparse(api) IN [p EXCEPT !.io = 1]

\* reading property `name` of a parsed value: TypeError on null, else the
\* field or undefined
HasField(v, name) == v.t = "obj" /\ name \in DOMAIN v.f

TypeErr == ErrorOf("Cannot read properties of null")
NotIterable == ErrorOf("undefined is not iterable")

\* ------------------------------------------------------------------------
\* AIService (src/unnamed/part_001, and the older copy in part_000)
\* ------------------------------------------------------------------------
\* constructor: openai is non-null iff the key is truthy
AIService(apiKey) == [openai |-> IF apiKey # "" THEN "client" ELSE Null]

isConfigured(svc) == svc.openai # Null

NotConfigured == "OpenAI API key not configured"

\* variant: the statements run outside the try block
NoCatch(o) == o

\* try { ... } catch (error) { return {success: false, error: ...} }
CatchToFailure(o) ==
    IF o.threw THEN Returned(Failure(CatchMessage(o.exc)), o.io) ELSE o

generateCopyTry(api) ==
    LET c == ContentOf(api, "No content generated")
    IN IF c.threw THEN c ELSE Returned(Success(c.ret), 1)

\* variant: no isConfigured guard in front of the try block
generateCopyNoGuard(svc, profile, api) ==
    CatchToFailure(IF svc.openai = Null THEN Threw(TypeErr, 0)
                   ELSE generateCopyTry(api))

generateCopy(svc, profile, api) ==
    IF ~isConfigured(svc) \/ svc.openai = Null
    THEN Returned(Failure(NotConfigured), 0)
    ELSE CatchToFailure(generateCopyTry(api))

\* ---- generatePalette ----
NoProfile == [given |-> FALSE, colors |-> <<>>, tone |-> "-"]
Profile(colors, tone) == [given |-> TRUE, colors |-> colors, tone |-> tone]

Range(q) == {q[i] : i \in DOMAIN q}
Min(a, b) == IF a < b THEN a ELSE b

\* `{...obj, key: value}`: spreading null or a number contributes nothing
Fields(v) == IF v.t = "obj" THEN v.f ELSE <<>>
WithField(v, key, value) ==
    JObj([x \in (DOMAIN Fields(v)) \cup {key} |->
            IF x = key THEN value ELSE Fields(v)[x]])

BrandName(n) == [label |-> "Brand Color", n |-> n]
AiName == [label |-> "ai", n |-> 0]
AiColor(h) == [hex |-> h, name |-> AiName, usage |-> "accent"]

\* styleProfile.colors.map((color, index) => ({hex, name, usage}))
existingColors(profile) ==
    [i \in 1..Len(profile.colors) |->
        [hex |-> profile.colors[i], name |-> BrandName(i),
         usage |-> "Brand primary"]]

\* the for loop pushing generated colors whose hex the profile lacks
allColors(profile, generated) ==
    existingColors(profile) \o
    SelectSeq(generated, LAMBDA c : c.hex \notin Range(profile.colors))

\* allColors.slice(0, 7)
MaxColors == 7
mergeColors(profile, generated) ==
    LET all == allColors(profile, generated)
    IN SubSeq(all, 1, Min(MaxColors, Len(all)))

mergePalette(profile, parsed) ==
    IF parsed.t = "null" THEN Threw(TypeErr, 1)
    ELSE IF ~HasField(parsed, "colors") THEN Threw(NotIterable, 1)
    ELSE Returned(Success(WithField(parsed, "colors",
                    mergeColors(profile, parsed.f.colors))), 1)

generatePaletteTry(profile, api) ==
    LET c == ContentOf(api, "No content generated")
    IN IF c.threw THEN c
       ELSE IF profile.given /\ Len(profile.colors) > 0
            THEN mergePalette(profile, c.ret)
            ELSE Returned(Success(c.ret), 1)

generatePalette(svc, profile, api) ==
    IF ~isConfigured(svc) \/ svc.openai = Null
    THEN Returned(Failure(NotConfigured), 0)
    ELSE CatchToFailure(generatePaletteTry(profile, api))

\* the copy of generatePalette in part_000: the profile is ignored
generatePaletteOld(svc, profile, api) ==
    IF ~isConfigured(svc) \/ svc.openai = Null
    THEN Returned(Failure(NotConfigured), 0)
    ELSE CatchToFailure(generateCopyTry(api))

\* ---- generateLayout ----
\* the switch on styleProfile.tone
adjustedProperties(css, tone) ==
    LET set(f, k, v) == [x \in (DOMAIN f) \cup {k} |-> IF x = k THEN v ELSE f[x]]
    IN CASE tone = "minimal" -> set(set(css, "gap", "2rem"), "padding", "2rem")
         [] tone = "luxurious" -> set(set(css, "gap", "3rem"), "padding", "3rem")
         [] tone = "playful" ->
              set(set(set(css, "gap", "1.5rem"), "padding", "1.5rem"),
                  "borderRadius", "12px")
         [] tone = "professional" ->
              set(set(css, "gap", "1rem"), "padding", "1.5rem")
         [] OTHER -> css

adjustLayout(profile, parsed) ==
    IF parsed.t = "null" THEN Threw(TypeErr, 1)
    ELSE LET css == IF HasField(parsed, "cssProperties")
                    THEN parsed.f.cssProperties ELSE <<>>
         IN Returned(Success(WithField(parsed, "cssProperties",
                        adjustedProperties(css, profile.tone))), 1)

generateLayoutTry(profile, api) ==
    LET c == ContentOf(api, "No content generated")
    IN IF c.threw THEN c
       ELSE IF profile.given THEN adjustLayout(profile, c.ret)
            ELSE Returned(Success(c.ret), 1)

generateLayout(svc, profile, api) ==
    IF ~isConfigured(svc) \/ svc.openai = Null
    THEN Returned(Failure(NotConfigured), 0)
    ELSE CatchToFailure(generateLayoutTry(profile, api))

\* the copy of generateLayout in part_000: no tone adjustment
generateLayoutOld(svc, profile, api) ==
    IF ~isConfigured(svc) \/ svc.openai = Null
    THEN Returned(Failure(NotConfigured), 0)
    ELSE CatchToFailure(generateCopyTry(api))

\* ---- generateImage ----
ImageSize == 1024
generateImageTry(brief, profile, api) ==
    IF api.k = "fault" THEN Threw(api.exc, 1)
    ELSE IF api.k # "url" THEN Threw(ErrorOf("No image URL generated"), 1)
    ELSE Returned(Success(JObj(
            [url |-> "url", alt |-> brief,
             style |-> IF profile.given THEN profile.tone ELSE "professional",
             dimensions |-> [width |-> ImageSize, height |-> ImageSize]])), 1)

generateImage(svc, brief, profile, api) ==
    IF ~isConfigured(svc) \/ svc.openai = Null
    THEN Returned(Failure(NotConfigured), 0)
    ELSE CatchToFailure(generateImageTry(brief, profile, api))

\* ------------------------------------------------------------------------
\* useDesignGeneration (src/src/hooks/useDesignGeneration.ts)
\* ------------------------------------------------------------------------
VARIABLES
    entry,          \* which interface this run drives: "hook" or "service"
    ver,            \* the copy of aiService in use: "part_000" or "part_001"
    apiKey,         \* state.apiKey
    isLoading,      \* state.isLoading
    error,          \* state.error, Null when null
    currentDesign,  \* state.currentDesign, NoDesign when null
    assets,         \* state.assets
    calls,          \* generateAsset invocations awaiting their Adapter call
    ops,            \* the invocations still awaiting calls, and the last one
    nextId,         \* next identifier uuidv4 hands out
    lastOp          \* the entry point the user invoked last, and its operation

hookVars == <<apiKey, isLoading, error, currentDesign, assets, calls, ops,
              nextId, lastOp>>

NoDesign == [id |-> 0, brief |-> "", assets |-> {}, given |-> FALSE]

Versions == {"part_000", "part_001"}
Keys == {"", "sk-1"}
Briefs == {"b1"}
NewPrompts == {"", "p2"}      \* "" stands for an omitted newPrompt
StructuredTypes == {"copy", "palette", "layout", "image"}

GoodCopy == JObj([headline |-> "h", subline |-> "s", tone |-> "t", cta |-> "c"])
GoodPalette == JObj([colors |-> <<AiColor("#c1"), AiColor("#c2")>>,
                     contrastRatio |-> 45])
GoodLayout == JObj([gridAreas |-> <<"header", "main">>,
                    breakpoints |-> [mobile |-> "1fr"],
                    cssProperties |-> [gap |-> "1rem", padding |-> "1rem"]])
GoodContent(type) ==
    CASE type = "copy" -> GoodCopy
      [] type = "palette" -> GoodPalette
      [] OTHER -> GoodLayout

\* responses the API gives to the hook's calls
HookApis(type) ==
    IF type = "image" THEN {ApiFault("Network error"), ApiUrl}
    ELSE {ApiFault("Network error"), ApiJson(JNull), ApiJson(GoodContent(type))}
HookProfiles == {NoProfile}

\* the switch of the hook's generateAsset over the four Adapter methods
adapterCall(v, svc, type, brief, profile, api) ==
    CASE type = "copy" -> generateCopy(svc, profile, api)
      [] type = "palette" ->
           IF v = "part_001" THEN generatePalette(svc, profile, api)
           ELSE generatePaletteOld(svc, profile, api)
      [] type = "layout" ->
           IF v = "part_001" THEN generateLayout(svc, profile, api)
           ELSE generateLayoutOld(svc, profile, api)
      [] type = "image" -> generateImage(svc, brief, profile, api)

FailedTo(type) ==
    CASE type = "copy" -> "Failed to generate copy"
      [] type = "palette" -> "Failed to generate palette"
      [] type = "layout" -> "Failed to generate layout"
      [] type = "image" -> "Failed to generate image"
      [] OTHER -> "Failed to generate component"

Unsupported(type) == "Unsupported asset type: component"

\* `result.error || m`
OrElse(e, m) == IF e \in {Null, ""} THEN m ELSE e

\* generateAsset of the hook: returns the arguments of addAsset, or throws
generateAsset(v, svc, type, brief, designId, profile, api) ==
    LET o == IF type \in StructuredTypes
             THEN adapterCall(v, svc, type, brief, profile, api)
             ELSE Returned(Failure(Unsupported(type)), 0)
    IN IF o.threw THEN o
       ELSE IF o.ret.success /\ Truthy(o.ret.data)
            THEN Returned([type |-> type, content |-> o.ret.data,
                           prompt |-> brief, designId |-> designId], o.io)
            ELSE Threw(ErrorOf(OrElse(o.ret.error, FailedTo(type))), o.io)

\* addAsset: the new asset appended to prev.assets
newAsset(id, a) ==
    [id |-> id, type |-> a.type, content |-> a.content,
     designId |-> a.designId,
     metadata |-> [prompt |-> a.prompt, model |-> "", temperature |-> 0]]
addAsset(list, id, a) == Append(list, newAsset(id, a))

AssetIds(list) == {list[i].id : i \in DOMAIN list}
\* prev.assets.filter((a) => a.id !== assetId)
removeAsset(list, assetId) == SelectSeq(list, LAMBDA a : a.id # assetId)
\* state.assets.find((a) => a.id === assetId)
findAsset(list, assetId) ==
    LET idx == {i \in DOMAIN list : list[i].id = assetId}
    IN list[CHOOSE i \in idx : \A j \in idx : i <= j]

\* bookkeeping of createDesign / regenerateAsset invocations: an invocation
\* is remembered while its calls are pending or while it is the last one;
\* `before` holds the identifiers listed when a createDesign began alone
NewOp(kind, target, arg, done, failed) ==
    [kind |-> kind, target |-> target, arg |-> arg, done |-> done,
     failed |-> failed, alone |-> calls = {},
     before |-> IF kind = "create" /\ calls = {} THEN AssetIds(assets) ELSE {}]
FreshOp == CHOOSE n \in 1..(Cardinality(DOMAIN ops) + 1) : n \notin DOMAIN ops
Remember(allOps, pending, last) ==
    [o \in {c.op : c \in pending} \cup ({last} \cap DOMAIN allOps) |-> allOps[o]]
WithOp(op, rec) == [o \in DOMAIN ops \cup {op} |-> IF o = op THEN rec ELSE ops[o]]
\* every pending call may still need an identifier for its asset
IdsLeft == MaxIds - (nextId - 1) - Cardinality(calls)

Invoked(name, op) == [name |-> name, op |-> op]

setApiKey(key) ==
    /\ entry = "hook"
    /\ apiKey' = key
    /\ lastOp' = Invoked("other", 0)
    /\ ops' = Remember(ops, calls, 0)
    /\ UNCHANGED <<isLoading, error, currentDesign, assets, calls, nextId>>

clearError ==
    /\ entry = "hook"
    /\ error' = Null
    /\ lastOp' = Invoked("other", 0)
    /\ ops' = Remember(ops, calls, 0)
    /\ UNCHANGED <<apiKey, isLoading, currentDesign, assets, calls, nextId>>

resetDesign ==
    /\ entry = "hook"
    /\ currentDesign' = NoDesign
    /\ assets' = <<>>
    /\ error' = Null
    /\ lastOp' = Invoked("other", 0)
    /\ ops' = Remember(ops, calls, 0)
    /\ UNCHANGED <<apiKey, isLoading, calls, nextId>>

KeyMissing == "Please provide an OpenAI API key"

\* createDesign up to its `await Promise.all`: the guard, the new design and
\* one generateAsset call per requested type; an unsupported type rejects
\* without a network call, so the join is rejected as soon as it is awaited
createDesign(brief, assetTypes, styleProfile) ==
    /\ entry = "hook"
    /\ IF apiKey = ""
       THEN /\ error' = KeyMissing
            /\ lastOp' = Invoked("createDesign", 0)
            /\ ops' = Remember(ops, calls, 0)
            /\ UNCHANGED <<apiKey, isLoading, currentDesign, assets, calls,
                           nextId>>
       ELSE LET designId == nextId
                op == FreshOp
                issued == assetTypes \cap StructuredTypes
                rejected == assetTypes \ StructuredTypes # {}
                pending == calls \cup
                    {[op |-> op, type |-> t, prompt |-> brief,
                      designId |-> designId, profile |-> styleProfile] :
                     t \in issued}
            IN /\ IdsLeft >= 1 + Cardinality(issued)
               /\ nextId' = nextId + 1
               /\ currentDesign' = [id |-> designId, brief |-> brief,
                                    assets |-> assetTypes, given |-> TRUE]
               /\ assets' = <<>>
               /\ calls' = pending
               /\ ops' = Remember(WithOp(op, NewOp("create", 0, "",
                                    rejected \/ issued = {}, rejected)),
                                  pending, op)
               /\ error' = IF rejected THEN Unsupported("component") ELSE Null
               /\ isLoading' = ~(rejected \/ issued = {})
               /\ lastOp' = Invoked("createDesign", op)
               /\ UNCHANGED apiKey

\* App.handleAssetGeneration: the canvas asks for one asset of one kind
handleAssetGeneration(type, prompt) == createDesign(prompt, {type}, NoProfile)

NotFound == "Asset not found"

\* variant: an unknown identifier is ignored like a missing key
regenerateAssetIgnoresUnknown(assetId, newPrompt) ==
    /\ entry = "hook"
    /\ IF apiKey = "" \/ ~currentDesign.given \/ assetId \notin AssetIds(assets)
       THEN /\ lastOp' = Invoked("regenerateAsset", 0)
            /\ ops' = Remember(ops, calls, 0)
            /\ UNCHANGED <<apiKey, isLoading, error, currentDesign, assets,
                           calls, nextId>>
       ELSE LET asset == findAsset(assets, assetId)
                op == FreshOp
                pending == calls \cup
                    {[op |-> op, type |-> asset.type,
                      prompt |-> OrElse(newPrompt, asset.metadata.prompt),
                      designId |-> currentDesign.id, profile |-> NoProfile]}
            IN /\ IdsLeft >= 1
               /\ isLoading' = TRUE
               /\ error' = Null
               /\ calls' = pending
               /\ ops' = Remember(WithOp(op, NewOp("regen", assetId,
                                    newPrompt, FALSE, FALSE)), pending, op)
               /\ lastOp' = Invoked("regenerateAsset", op)
               /\ UNCHANGED <<apiKey, currentDesign, assets, nextId>>

\* regenerateAsset up to its `await generateAsset`: the silent guard, the
\* lookup (whose throw runs catch and finally at once) and the Adapter call
regenerateAsset(assetId, newPrompt) ==
    /\ entry = "hook"
    /\ IF apiKey = "" \/ ~currentDesign.given
       THEN /\ lastOp' = Invoked("regenerateAsset", 0)
            /\ ops' = Remember(ops, calls, 0)
            /\ UNCHANGED <<apiKey, isLoading, error, currentDesign, assets,
                           calls, nextId>>
       ELSE IF assetId \notin AssetIds(assets)
       THEN /\ error' = NotFound
            /\ isLoading' = FALSE
            /\ lastOp' = Invoked("regenerateAsset", 0)
            /\ ops' = Remember(ops, calls, 0)
            /\ UNCHANGED <<apiKey, currentDesign, assets, calls, nextId>>
       ELSE LET asset == findAsset(assets, assetId)
                op == FreshOp
                pending == calls \cup
                    {[op |-> op, type |-> asset.type,
                      prompt |-> OrElse(newPrompt, asset.metadata.prompt),
                      designId |-> currentDesign.id, profile |-> NoProfile]}
            IN /\ IdsLeft >= 1
               /\ isLoading' = TRUE
               /\ error' = Null
               /\ calls' = pending
               /\ ops' = Remember(WithOp(op, NewOp("regen", assetId,
                                    newPrompt, FALSE, FALSE)), pending, op)
               /\ lastOp' = Invoked("regenerateAsset", op)
               /\ UNCHANGED <<apiKey, currentDesign, assets, nextId>>

\* variant: catch runs for every rejected call, so the last failure wins
settleCreateLastWins(c, api) ==
    LET o == generateAsset(ver, AIService("sk-1"), c.type, c.prompt,
                           c.designId, c.profile, api)
        op == ops[c.op]
        rest == {d \in calls \ {c} : d.op = c.op}
        resolves == ~o.threw /\ ~op.done /\ rest = {}
        rejects == o.threw /\ ~op.done
    IN /\ assets' = IF o.threw THEN assets ELSE addAsset(assets, nextId, o.ret)
       /\ nextId' = IF o.threw THEN nextId ELSE nextId + 1
       /\ error' = IF o.threw THEN CatchMessage(o.exc) ELSE error
       /\ isLoading' = IF resolves \/ rejects THEN FALSE ELSE isLoading
       /\ ops' = Remember([ops EXCEPT ![c.op].done = @ \/ resolves \/ rejects,
                                      ![c.op].failed = @ \/ o.threw],
                          calls \ {c}, lastOp.op)

\* one Adapter call of a createDesign settles: generateAsset adds the asset
\* or throws; Promise.all resolves with the last fulfilment and rejects with
\* the first rejection, and only then do catch and finally run
settleCreate(c, api) ==
    LET o == generateAsset(ver, AIService("sk-1"), c.type, c.prompt,
                           c.designId, c.profile, api)
        op == ops[c.op]
        rest == {d \in calls \ {c} : d.op = c.op}
        resolves == ~o.threw /\ ~op.done /\ rest = {}
        rejects == o.threw /\ ~op.done
    IN /\ assets' = IF o.threw THEN assets ELSE addAsset(assets, nextId, o.ret)
       /\ nextId' = IF o.threw THEN nextId ELSE nextId + 1
       /\ error' = IF rejects THEN CatchMessage(o.exc) ELSE error
       /\ isLoading' = IF resolves \/ rejects THEN FALSE ELSE isLoading
       /\ ops' = Remember([ops EXCEPT ![c.op].done = @ \/ resolves \/ rejects,
                                      ![c.op].failed = @ \/ o.threw],
                          calls \ {c}, lastOp.op)

\* variant: the old asset is not filtered out after a successful regeneration
settleRegenerateKeepsOld(c, api) ==
    LET o == generateAsset(ver, AIService("sk-1"), c.type, c.prompt,
                           c.designId, c.profile, api)
    IN /\ assets' = IF o.threw THEN assets ELSE addAsset(assets, nextId, o.ret)
       /\ nextId' = IF o.threw THEN nextId ELSE nextId + 1
       /\ error' = IF o.threw THEN CatchMessage(o.exc) ELSE error
       /\ isLoading' = FALSE
       /\ ops' = Remember([ops EXCEPT ![c.op].done = TRUE,
                                      ![c.op].failed = o.threw],
                          calls \ {c}, lastOp.op)

\* variant: the old asset is filtered out whether or not the call succeeded
settleRegenerateAlwaysRemoves(c, api) ==
    LET o == generateAsset(ver, AIService("sk-1"), c.type, c.prompt,
                           c.designId, c.profile, api)
        op == ops[c.op]
    IN /\ assets' = removeAsset(IF o.threw THEN assets
                                ELSE addAsset(assets, nextId, o.ret), op.target)
       /\ nextId' = IF o.threw THEN nextId ELSE nextId + 1
       /\ error' = IF o.threw THEN CatchMessage(o.exc) ELSE error
       /\ isLoading' = FALSE
       /\ ops' = Remember([ops EXCEPT ![c.op].done = TRUE,
                                      ![c.op].failed = o.threw],
                          calls \ {c}, lastOp.op)

\* variant: no finally block, a failed regeneration leaves isLoading set
settleRegenerateNoFinally(c, api) ==
    LET o == generateAsset(ver, AIService("sk-1"), c.type, c.prompt,
                           c.designId, c.profile, api)
        op == ops[c.op]
    IN /\ assets' = IF o.threw THEN assets
                    ELSE removeAsset(addAsset(assets, nextId, o.ret), op.target)
       /\ nextId' = IF o.threw THEN nextId ELSE nextId + 1
       /\ error' = IF o.threw THEN CatchMessage(o.exc) ELSE error
       /\ isLoading' = IF o.threw THEN isLoading ELSE FALSE
       /\ ops' = Remember([ops EXCEPT ![c.op].done = TRUE,
                                      ![c.op].failed = o.threw],
                          calls \ {c}, lastOp.op)

\* the Adapter call of a regenerateAsset settles: the new asset is added and
\* the old one filtered out, or the error is set; finally clears isLoading
settleRegenerate(c, api) ==
    LET o == generateAsset(ver, AIService("sk-1"), c.type, c.prompt,
                           c.designId, c.profile, api)
        op == ops[c.op]
    IN /\ assets' = IF o.threw THEN assets
                    ELSE removeAsset(addAsset(assets, nextId, o.ret), op.target)
       /\ nextId' = IF o.threw THEN nextId ELSE nextId + 1
       /\ error' = IF o.threw THEN CatchMessage(o.exc) ELSE error
       /\ isLoading' = FALSE
       /\ ops' = Remember([ops EXCEPT ![c.op].done = TRUE,
                                      ![c.op].failed = o.threw],
                          calls \ {c}, lastOp.op)

settle(c, api) ==
    /\ entry = "hook"
    /\ c \in calls
    /\ calls' = calls \ {c}
    /\ IF ops[c.op].kind = "create" THEN settleCreate(c, api)
       ELSE settleRegenerate(c, api)
    /\ UNCHANGED <<apiKey, currentDesign, lastOp>>

\* ------------------------------------------------------------------------
\* AIService.generateComponent and AIService.generateAsset
\* ------------------------------------------------------------------------
FailedComponent(m) ==
    CASE m = NotConfigured -> "Failed to generate component: OpenAI API key not configured"
      [] m = "Network error" -> "Failed to generate component: Network error"
      [] m = "No response from OpenAI" -> "Failed to generate component: No response from OpenAI"
      [] m = "Unexpected token" -> "Failed to generate component: Unexpected token"
      [] m = "Invalid component data structure" -> "Failed to generate component: Invalid component data structure"
      [] m = "Cannot read properties of null" -> "Failed to generate component: Cannot read properties of null"
      [] OTHER -> "Failed to generate component: Unknown error"

\* `componentData.field`, falsy when missing, "" or 0
NumberFields == {"width", "height"}
FieldTruthy(v, name) ==
    /\ HasField(v, name)
    /\ IF name \in NumberFields THEN v.f[name] # 0 ELSE v.f[name] # ""
\* variant: the default is assigned whatever the response holds
DefaultedAlways(v, name, dflt) == WithField(v, name, dflt)

\* `componentData.field = componentData.field || dflt`
Defaulted(v, name, dflt) ==
    IF FieldTruthy(v, name) THEN v ELSE WithField(v, name, dflt)

DefaultWidth == 300
DefaultHeight == 200

generateComponentTry(svc, api) ==
    IF svc.openai = Null THEN Threw(TypeErr, 0)
    ELSE LET c == ContentOf(api, "No response from OpenAI")
         IN IF c.threw THEN c
            ELSE IF c.ret.t = "null" THEN Threw(TypeErr, 1)
            ELSE IF ~(FieldTruthy(c.ret, "html") /\ FieldTruthy(c.ret, "css")
                      /\ FieldTruthy(c.ret, "description"))
                 THEN Threw(ErrorOf("Invalid component data structure"), 1)
            ELSE Returned(Defaulted(Defaulted(Defaulted(c.ret,
                            "width", DefaultWidth), "height", DefaultHeight),
                            "framework", "vanilla"), 1)

\* catch (error) { throw new Error(`Failed to generate component: ...`) }
CatchToRethrow(o) ==
    IF o.threw
    THEN Threw(ErrorOf(FailedComponent(
            IF o.exc.isError THEN o.exc.message ELSE "Unknown error")), o.io)
    ELSE o

generateComponent(svc, api) ==
    IF svc.openai = Null THEN Threw(ErrorOf(NotConfigured), 0)
    ELSE CatchToRethrow(generateComponentTry(svc, api))

\* the copy in part_000 has no guard in front of the try block
generateComponentOld(svc, api) == CatchToRethrow(generateComponentTry(svc, api))

\* the model and temperature generateAsset writes into the metadata
AssetModel(type) == IF type = "image" THEN "dall-e-3" ELSE "gpt-4o"
\* temperatures are counted in hundredths
AssetTemperature(type) ==
    CASE type = "copy" -> 70
      [] type = "image" -> 0
      [] type = "palette" -> 30
      [] type = "layout" -> 50
      [] OTHER -> 70

\* the model and temperature the Adapter method sends to the API: the
\* defaults of its config parameter, or the literals of its request
UsedModel(v, type) ==
    CASE type = "copy" -> "gpt-4.1"
      [] type \in {"palette", "layout"} -> "gpt-4o-mini"
      [] type = "image" -> "dall-e-3"
      [] OTHER -> IF v = "part_001" THEN "gpt-4.1" ELSE "gpt-4o"
UsedTemperature(v, type) ==
    CASE type = "copy" -> 70
      [] type \in {"palette", "layout"} -> 35
      [] type = "image" -> 0
      [] OTHER -> 70

serviceAsset(type, prompt, content) ==
    [type |-> type, content |-> content, designId |-> "",
     metadata |-> [prompt |-> prompt, model |-> AssetModel(type),
                   temperature |-> AssetTemperature(type)]]

\* AIService.generateAsset of part_001: a failed result is thrown
AIService_generateAsset(svc, type, prompt, api) ==
    IF type = "component"
    THEN LET o == generateComponent(svc, api)
         IN IF o.threw THEN o
            ELSE Returned(serviceAsset(type, prompt, o.ret), o.io)
    ELSE LET o == adapterCall("part_001", svc, type, prompt, NoProfile, api)
         IN IF o.threw THEN o
            ELSE IF ~o.ret.success \/ ~Truthy(o.ret.data)
                 THEN Threw(ErrorOf(OrElse(o.ret.error, FailedTo(type))), o.io)
                 ELSE Returned(serviceAsset(type, prompt, o.ret.data), o.io)

\* AIService.generateAsset of part_000: result.data is used unchecked
AIService_generateAssetOld(svc, type, prompt, api) ==
    IF type = "component"
    THEN LET o == generateComponentOld(svc, api)
         IN IF o.threw THEN o
            ELSE Returned(serviceAsset(type, prompt, o.ret), o.io)
    ELSE LET o == adapterCall("part_000", svc, type, prompt, NoProfile, api)
         IN IF o.threw THEN o
            ELSE Returned(serviceAsset(type, prompt, o.ret.data), o.io)

\* ------------------------------------------------------------------------
\* Direct use of an AIService instance
\* ------------------------------------------------------------------------
VARIABLES
    request,        \* the method invoked, its arguments and the API's answer
    outcome,        \* what the last invocation returned or threw
    netCalls,       \* requests that reached the hosted API
    invocations     \* invocations made so far

serviceVars == <<request, outcome, netCalls, invocations>>

\* the ComponentRenderer singleton and the useComponentGeneration hook
VARIABLES
    renderContainer,  \* this.renderContainer: "div", or Null
    attached,         \* document.body holds the container
    children,         \* renderComponent calls whose wrapper the container holds
    renders,          \* renderComponent calls in flight
    done,             \* the renderComponent call that returned or threw last
    nextRender,       \* number of the next renderComponent call
    cg,               \* state of useComponentGeneration, and what its
                      \* last generateAndRenderComponent call returned
    gens,             \* generateAsset calls generateAndRenderComponent awaits
    multi             \* the renderMultipleComponents invocation

rendererVars == <<renderContainer, attached, children, renders, done,
                  nextRender, cg, gens, multi>>

\* extractColorsFromImage of the useImageAnalysis hook
VARIABLES
    image,            \* the decoded image of the file handed in
    sampled           \* what the returned promise settled with

samplerVars == <<image, sampled>>
vars == <<entry, ver, hookVars, serviceVars, rendererVars, samplerVars>>

NoOutcome == [threw |-> FALSE, exc |-> NoExc, ret |-> [t |-> "none"], io |-> 0]
NoRequest == [method |-> "none"]

ChatFailures == {ApiFault("Network error"), ApiThrowsNonError, ApiMissing,
                 ApiEmpty, ApiProse}
WrongShapes == {ApiJson(JNull), ApiJson(JZero), ApiJson(JObj(<<>>))}

CopyApis == ChatFailures \cup WrongShapes \cup {ApiJson(GoodCopy)}
CopyProfiles == {NoProfile, Profile(<<"#c1">>, "bold")}

GenLists == {[i \in DOMAIN h |-> AiColor(h[i])] : h \in SeqsUpTo(Hexes, MaxGen)}
PaletteOf(g) == JObj([colors |-> g, contrastRatio |-> 45])
PaletteApis == ChatFailures \cup WrongShapes \cup
               {ApiJson(PaletteOf(g)) : g \in GenLists}
PaletteProfiles == {NoProfile} \cup
                   {Profile(b, "bold") : b \in SeqsUpTo(Hexes, MaxBrand)}

CssKeys == {"gap", "padding", "borderRadius", "color"}
CssMaps == UNION {[d -> {"9px"}] : d \in SUBSET CssKeys}
LayoutOf(css) == JObj([gridAreas |-> <<"header", "main">>,
                       breakpoints |-> [mobile |-> "1fr"],
                       cssProperties |-> css])
LayoutApis == ChatFailures \cup WrongShapes \cup
              {ApiJson(LayoutOf(css)) : css \in CssMaps}
LayoutProfiles == {NoProfile} \cup {Profile(<<"#c1">>, t) : t \in Tones}

ImageApis == {ApiFault("Network error"), ApiThrowsNonError, ApiMissing, ApiUrl}

ComponentFields == [html |-> "<div>", css |-> ".c{}", description |-> "d",
                    width |-> 320, height |-> 240, framework |-> "react",
                    javascript |-> "js"]
ComponentValues ==
    {JObj([x \in d |-> ComponentFields[x]]) : d \in SUBSET DOMAIN ComponentFields}
    \cup {JObj([ComponentFields EXCEPT !.html = ""]),
          JObj([ComponentFields EXCEPT !.width = 0])}
ComponentApis == ChatFailures \cup {ApiJson(JNull), ApiJson(JZero)} \cup
                 {ApiJson(v) : v \in ComponentValues}

Req(method, type, key, profile, api) ==
    [method |-> method, type |-> type, key |-> key, brief |-> "b1",
     profile |-> profile, api |-> api]

AssetApis(type) ==
    CASE type = "copy" -> CopyApis
      [] type = "palette" -> {a \in PaletteApis : a.k # "json" \/ a.v.t # "obj"}
                             \cup {ApiJson(GoodPalette)}
      [] type = "layout" -> {a \in LayoutApis : a.k # "json" \/ a.v.t # "obj"}
                            \cup {ApiJson(GoodLayout)}
      [] type = "image" -> ImageApis
      [] OTHER -> ComponentApis

Requests ==
    {Req("generateCopy", "copy", k, p, a) :
        k \in Keys, p \in CopyProfiles, a \in CopyApis}
    \cup {Req("generatePalette", "palette", "sk-1", p, a) :
        p \in PaletteProfiles, a \in PaletteApis}
    \cup {Req("generatePalette", "palette", "", p, a) :
        p \in CopyProfiles, a \in CopyApis}
    \cup {Req("generateLayout", "layout", k, p, a) :
        k \in Keys, p \in LayoutProfiles, a \in LayoutApis}
    \cup {Req("generateImage", "image", k, p, a) :
        k \in Keys, p \in CopyProfiles, a \in ImageApis}
    \cup UNION {{Req("generateAsset", t, k, NoProfile, a) :
        k \in Keys, a \in AssetApis(t)} : t \in AssetTypes}

\* one invocation of a method of the instance `new AIService(request.key)`
invoke(method, o) ==
    /\ entry = "service"
    /\ request.method = method
    /\ invocations < MaxCalls
    /\ invocations' = invocations + 1
    /\ outcome' = o
    /\ netCalls' = netCalls + o.io
    /\ UNCHANGED <<entry, ver, hookVars, request, rendererVars, samplerVars>>

callGenerateCopy ==
    invoke("generateCopy",
           generateCopy(AIService(request.key), request.profile, request.api))

callGeneratePalette ==
    invoke("generatePalette",
           IF ver = "part_001"
           THEN generatePalette(AIService(request.key), request.profile, request.api)
           ELSE generatePaletteOld(AIService(request.key), request.profile, request.api))

callGenerateLayout ==
    invoke("generateLayout",
           IF ver = "part_001"
           THEN generateLayout(AIService(request.key), request.profile, request.api)
           ELSE generateLayoutOld(AIService(request.key), request.profile, request.api))

callGenerateImage ==
    invoke("generateImage",
           generateImage(AIService(request.key), request.brief,
                         request.profile, request.api))

callGenerateAsset ==
    invoke("generateAsset",
           IF ver = "part_001"
           THEN AIService_generateAsset(AIService(request.key), request.type,
                                        request.brief, request.api)
           ELSE AIService_generateAssetOld(AIService(request.key), request.type,
                                           request.brief, request.api))

\* ------------------------------------------------------------------------
\* ComponentRenderer (src/unnamed/part_001, from line 553)
\* ------------------------------------------------------------------------
\* component.javascript: absent or empty, a script that runs, a script that
\* throws when executed, a script `new Function` rejects
Scripts == {"", "ok()", "throw 1", "(("}
\* the last of the calls that returned or threw
Latest(f) ==
    [k \in {x \in DOMAIN f : \A y \in DOMAIN f : y <= x} |-> f[k]]
ComponentNames == {"a", "b"}
WidthOf(name) == IF name = "a" THEN 300 ELSE 320
HeightOf(name) == IF name = "a" THEN 200 ELSE 240
Component(name, js) ==
    [description |-> name, width |-> WidthOf(name), height |-> HeightOf(name),
     javascript |-> js]
RenderComponents == {Component("a", "ok()"), Component("b", "throw 1")}

\* the inner try/catch around `new Function(...)` and `scriptFunction(...)`:
\* what the script did, none of which leaves the block
runScript(js) ==
    CASE js = "" -> "none"
      [] js = "((" -> "construction fault caught"
      [] js = "throw 1" -> "execution fault caught"
      [] OTHER -> "ran"

\* html2canvas resolves or rejects; canvas.toDataURL returns or throws
RasterOutcomes == {"bitmap", "html2canvas rejects", "toDataURL throws"}

RenderedComponent(c) ==
    [imageUrl |-> "data:image/png", width |-> c.width, height |-> c.height,
     component |-> c]
NoRendered == [imageUrl |-> Null]
\* generateAndRenderComponent has not resolved (cg.returned holds what its
\* last call resolved with: NoRendered stands for null)
NothingReturned == [imageUrl |-> "unsettled"]

NotInitialized == "Render container not initialized"
RenderFailed(m) ==
    CASE m = "html2canvas failed" -> "Failed to render component: html2canvas failed"
      [] m = "Tainted canvas" -> "Failed to render component: Tainted canvas"
      [] OTHER -> "Failed to render component: Cannot read properties of null"

\* the renderer as one value, to thread through the steps of a handler
Renderer ==
    [container |-> renderContainer, attached |-> attached,
     children |-> children, renders |-> renders, done |-> done,
     next |-> nextRender]
setRenderer(R) ==
    /\ renderContainer' = R.container
    /\ attached' = R.attached
    /\ children' = R.children
    /\ renders' = R.renders
    /\ done' = Latest(R.done)
    /\ nextRender' = R.next

Put(f, k, v) == [x \in (DOMAIN f) \cup {k} |-> IF x = k THEN v ELSE f[x]]
Drop(f, k) == [x \in (DOMAIN f) \ {k} |-> f[x]]

Completed(c, caller, o, mounted, script, raster) ==
    [component |-> c, caller |-> caller, threw |-> o.threw,
     message |-> o.exc.message,
     rendered |-> IF o.threw THEN NoRendered ELSE o.ret,
     mounted |-> mounted, script |-> script, raster |-> raster]

\* variant: the script runs without the inner try/catch, so its fault
\* reaches the catch block of renderComponent
renderComponentBeginBareScript(R, c, caller) ==
    LET k == R.next
    IN IF R.container = Null
       THEN [R EXCEPT !.next = k + 1,
                      !.done = Put(@, k,
                            Completed(c, caller,
                                      Threw(ErrorOf(NotInitialized), 0),
                                      FALSE, "none", "none"))]
       ELSE IF c.javascript \in {"throw 1", "(("}
       THEN [R EXCEPT !.next = k + 1,
                      !.children = @ \cup {k},
                      !.done = Put(@, k,
                            Completed(c, caller,
                                      Threw(ErrorOf(RenderFailed("script")), 0),
                                      TRUE, "fault", "none"))]
       ELSE [R EXCEPT !.next = k + 1,
                      !.children = @ \cup {k},
                      !.renders = Put(@, k, [component |-> c, caller |-> caller,
                                             script |-> runScript(c.javascript),
                                             pc |-> "settling"])]

\* renderComponent up to `await new Promise(... setTimeout ...)`: the guard,
\* the wrapper mounted on the container, the script
renderComponentBegin(R, c, caller) ==
    LET k == R.next
    IN IF R.container = Null
       THEN [R EXCEPT !.next = k + 1,
                      !.done = Put(@, k,
                            Completed(c, caller,
                                      Threw(ErrorOf(NotInitialized), 0),
                                      FALSE, "none", "none"))]
       ELSE [R EXCEPT !.next = k + 1,
                      !.children = @ \cup {k},
                      !.renders = Put(@, k, [component |-> c, caller |-> caller,
                                             script |-> runScript(c.javascript),
                                             pc |-> "settling"])]

\* the timer fires and html2canvas(wrapper) is called
renderComponentRasterize(R, k) ==
    [R EXCEPT !.renders[k].pc = "rasterizing"]

\* what the rest of the try block does once html2canvas settled with r
renderComponentTail(R, k, r) ==
    IF r = "html2canvas rejects" THEN Threw(ErrorOf("html2canvas failed"), 0)
    ELSE IF r = "toDataURL throws" THEN Threw(ErrorOf("Tainted canvas"), 0)
    ELSE IF R.container = Null THEN Threw(TypeErr, 0)
    ELSE Returned(RenderedComponent(R.renders[k].component), 0)

\* renderComponent from the resolution of html2canvas to its return or to
\* the rethrow of its catch block; removeChild runs on the success path only
renderComponentEnd(R, k, r) ==
    LET t == renderComponentTail(R, k, r)
        o == IF t.threw THEN Threw(ErrorOf(RenderFailed(t.exc.message)), 0)
             ELSE t
    IN [R EXCEPT !.children = IF t.threw THEN @ ELSE @ \ {k},
                 !.renders = Drop(@, k),
                 !.done = Put(@, k, Completed(R.renders[k].component,
                                R.renders[k].caller, o, TRUE,
                                R.renders[k].script, r))]

\* variant: the container is detached but the reference is kept
destroyKeepsReference(R) ==
    IF R.container # Null /\ R.attached
    THEN [R EXCEPT !.attached = FALSE] ELSE R

\* destroy(): `if (this.renderContainer?.parentNode)` detach the container
\* and forget it
destroy(R) ==
    IF R.container # Null /\ R.attached
    THEN [R EXCEPT !.attached = FALSE, !.container = Null] ELSE R

\* ------------------------------------------------------------------------
\* useComponentGeneration (src/src/hooks/useComponentGeneration.ts) and
\* renderMultipleComponents
\* ------------------------------------------------------------------------
MaxRenders == 2    \* renderComponent calls begun in one run
MaxBatch == 2      \* longest list handed to renderMultipleComponents

CgKeys == {"", " ", "sk-1"}
Trim(key) == IF key = " " THEN "" ELSE key

NoMulti == [state |-> "idle", components |-> <<>>, idx |-> 0, log |-> <<>>,
            rendered |-> <<>>]

\* the parsed component a generateAsset("component") call returned
ToComponent(content) ==
    [description |-> content.f.description, width |-> content.f.width,
     height |-> content.f.height,
     javascript |-> IF HasField(content, "javascript")
                    THEN content.f.javascript ELSE ""]

GeneratedFields(name, js) ==
    [html |-> "<div>", css |-> ".c{}", description |-> name,
     width |-> WidthOf(name), height |-> HeightOf(name),
     framework |-> "vanilla", javascript |-> js]
GenerationApis ==
    {ApiFault("Network error"),
     ApiJson(JObj([description |-> "a"])),
     ApiJson(JObj(GeneratedFields("a", "((")))}

\* renderComponent calls still to begin for the invocations under way
Reserved ==
    gens + (IF multi.state = "running"
            THEN Len(multi.components) - multi.idx ELSE 0)
RenderBudget == MaxRenders - (nextRender - 1) - Reserved

\* variant: no finally block, a failed call leaves its flags as they were
renderFailedKeepsFlags(state, message, caller) ==
    [state EXCEPT !.error = message,
                  !.returned = IF caller = "generate" THEN NoRendered ELSE @]

\* the catch / finally of the two hook functions, and their success path
renderFailed(state, message, caller) ==
    [state EXCEPT !.error = message,
                  !.isGenerating = IF caller = "generate" THEN FALSE ELSE @,
                  !.isRendering = FALSE,
                  !.returned = IF caller = "generate" THEN NoRendered ELSE @]
renderSucceeded(state, rendered, caller) ==
    [state EXCEPT !.renderedComponents = Append(@, rendered),
                  !.isGenerating = IF caller = "generate" THEN FALSE ELSE @,
                  !.isRendering = FALSE,
                  !.returned = IF caller = "generate" THEN rendered ELSE @]

clearComponentError ==
    /\ cg' = [cg EXCEPT !.error = Null]
    /\ UNCHANGED <<renderContainer, attached, children, renders, done, nextRender,
                   gens, multi>>

clearComponents ==
    /\ cg' = [cg EXCEPT !.renderedComponents = <<>>]
    /\ UNCHANGED <<renderContainer, attached, children, renders, done, nextRender,
                   gens, multi>>

renderExistingComponent(component) ==
    LET k == nextRender
        R == renderComponentBegin(Renderer, component, "existing")
    IN /\ RenderBudget >= 1
       /\ setRenderer(R)
       /\ cg' = IF k \in DOMAIN R.done
                THEN [cg EXCEPT !.error = R.done[k].message,
                                !.isRendering = FALSE]
                ELSE [cg EXCEPT !.error = Null, !.isRendering = TRUE]
       /\ UNCHANGED <<gens, multi>>

generateAndRenderComponent(prompt, key) ==
    IF Trim(key) = ""
    THEN /\ cg' = [cg EXCEPT !.error = "API key is required",
                            !.returned = NoRendered]
         /\ UNCHANGED <<renderContainer, attached, children, renders, done, nextRender,
                        gens, multi>>
    ELSE /\ RenderBudget >= 1
         /\ cg' = [cg EXCEPT !.isGenerating = TRUE, !.error = Null,
                            !.returned = NothingReturned]
         /\ gens' = gens + 1
         /\ UNCHANGED <<renderContainer, attached, children, renders, done, nextRender,
                        multi>>

\* generateAndRenderComponent resumes after `await aiService.generateAsset`
generationSettles(api) ==
    LET o == IF ver = "part_001"
             THEN AIService_generateAsset(AIService("sk-1"), "component",
                                          "b1", api)
             ELSE AIService_generateAssetOld(AIService("sk-1"), "component",
                                             "b1", api)
        k == nextRender
        R == renderComponentBegin(Renderer, ToComponent(o.ret.content),
                                  "generate")
    IN /\ gens > 0
       /\ gens' = gens - 1
       /\ IF o.threw
          THEN /\ cg' = renderFailed(cg, IF o.exc.isError THEN o.exc.message
                                         ELSE "Failed to generate component",
                                  "generate")
               /\ UNCHANGED <<renderContainer, attached, children, renders,
                              done, nextRender>>
          ELSE /\ setRenderer(R)
               /\ cg' = IF k \in DOMAIN R.done
                        THEN renderFailed(cg, R.done[k].message, "generate")
                        ELSE [cg EXCEPT !.isGenerating = FALSE,
                                        !.isRendering = TRUE]
       /\ UNCHANGED multi

\* one awaited renderComponent call of the loop, and how it ended
Attempt(k, threw) == [call |-> k, threw |-> threw]

\* the for loop of renderMultipleComponents from component m.idx on, up to
\* the next await that does not settle at once, or to `return rendered`
RECURSIVE renderLoop(_, _)
renderLoop(R, m) ==
    IF m.idx > Len(m.components)
    THEN [R |-> R, m |-> [m EXCEPT !.state = "returned"]]
    ELSE LET k == R.next
             R1 == renderComponentBegin(R, m.components[m.idx], "multiple")
         IN IF k \in DOMAIN R1.done
            THEN renderLoop(R1, [m EXCEPT !.idx = @ + 1,
                                          !.log = Append(@, Attempt(k, TRUE))])
            ELSE [R |-> R1, m |-> m]

\* variant: no try/catch around the awaited renderComponent
renderNextAborts(R, m, k) ==
    LET d == R.done[k]
    IN IF d.threw
       THEN [R |-> R, m |-> [m EXCEPT !.state = "threw",
                                      !.log = Append(@, Attempt(k, TRUE))]]
       ELSE renderLoop(R, [m EXCEPT !.idx = @ + 1,
                                    !.log = Append(@, Attempt(k, FALSE)),
                                    !.rendered = Append(@, d.rendered)])

\* renderMultipleComponents resumes after `await this.renderComponent`:
\* push the result or log the failure, then go on with the loop
renderNext(R, m, k) ==
    LET d == R.done[k]
    IN renderLoop(R, [m EXCEPT !.idx = @ + 1,
                               !.log = Append(@, Attempt(k, d.threw)),
                               !.rendered = IF d.threw THEN @
                                            ELSE Append(@, d.rendered)])

renderMultipleComponents(components) ==
    LET lm == renderLoop(Renderer,
                         [state |-> "running", components |-> components,
                          idx |-> 1, log |-> <<>>, rendered |-> <<>>])
    IN /\ multi.state # "running"
       /\ RenderBudget >= Len(components)
       /\ setRenderer(lm.R)
       /\ multi' = lm.m
       /\ UNCHANGED <<cg, gens>>

\* the 500 ms timer of a renderComponent call fires
timerFires(k) ==
    /\ k \in DOMAIN renders
    /\ renders[k].pc = "settling"
    /\ setRenderer(renderComponentRasterize(Renderer, k))
    /\ UNCHANGED <<cg, gens, multi>>

\* html2canvas settles: the call returns or throws and its caller resumes
renderSettles(k, r) ==
    LET R == renderComponentEnd(Renderer, k, r)
        d == R.done[k]
        lm == renderNext(R, multi, k)
    IN /\ k \in DOMAIN renders
       /\ renders[k].pc = "rasterizing"
       /\ IF d.caller = "multiple"
          THEN /\ setRenderer(lm.R)
               /\ multi' = lm.m
               /\ UNCHANGED cg
          ELSE /\ setRenderer(R)
               /\ cg' = IF d.threw
                        THEN renderFailed(cg, d.message, d.caller)
                        ELSE renderSucceeded(cg, d.rendered, d.caller)
               /\ UNCHANGED multi
       /\ UNCHANGED gens

\* the beforeunload listener
pageUnloads ==
    /\ setRenderer(destroy(Renderer))
    /\ UNCHANGED <<cg, gens, multi>>

\* ------------------------------------------------------------------------
\* extractColorsFromImage (src/src/hooks/useImageAnalysis.ts)
\* ------------------------------------------------------------------------
MaxWidth == 12     \* widest image drawn
MaxHeight == 10    \* tallest image drawn

\* the colors an image is painted with, as <<r, g, b>>
Shades == << <<255, 0, 0>>, <<0, 0, 0>>, <<0, 0, 10>>, <<255, 255, 255>>,
             <<1, 2, 3>>, <<16, 32, 48>>, <<0, 255, 0>>, <<0, 0, 255>>,
             <<171, 205, 239>>, <<10, 11, 12>>, <<254, 220, 186>>,
             <<128, 128, 128>> >>

\* a decoded image: pixels in scan order change shade every `run` pixels,
\* cycling through the first `shades` shades; alpha varies from pixel to pixel
Images ==
    [width : 1..MaxWidth, height : 1..MaxHeight, run : {1, 10},
     shades : 1..Len(Shades)]
NoImage == [width |-> 0, height |-> 0, run |-> 1, shades |-> 1]

PixelShade(img, p) == Shades[((p \div img.run) % img.shades) + 1]
PixelAlpha(p) == (p % 3) * 127

\* ctx.getImageData(0, 0, width, height).data: r, g, b, a of every pixel
getImageData(img) ==
    [i \in 0..(4 * img.width * img.height - 1) |->
        IF i % 4 = 3 THEN PixelAlpha(i \div 4)
        ELSE PixelShade(img, i \div 4)[(i % 4) + 1]]

HexDigits == <<"0", "1", "2", "3", "4", "5", "6", "7", "8", "9",
               "a", "b", "c", "d", "e", "f">>

\* Number.prototype.toString(16), as the sequence of its characters
RECURSIVE toString16(_)
toString16(n) ==
    IF n < 16 THEN <<HexDigits[n + 1]>>
    ELSE Append(toString16(n \div 16), HexDigits[(n % 16) + 1])

\* variant: the digits of the color without the padding bit
hexOfUnpadded(r, g, b) ==
    <<"#">> \o toString16(r * 65536 + g * 256 + b)

\* `#${((1 << 24) + (r << 16) + (g << 8) + b).toString(16).slice(1)}`
hexOf(r, g, b) ==
    <<"#">> \o Tail(toString16(16777216 + r * 65536 + g * 256 + b))

\* Set.prototype.add: insertion order, duplicates ignored
setAdd(set, x) == IF x \in Range(set) THEN set ELSE Append(set, x)

\* `for (let i = 0; i < data.length; i += 40)`
RECURSIVE sampleFrom(_, _, _)
sampleFrom(data, i, colors) ==
    IF i >= Cardinality(DOMAIN data) THEN colors
    ELSE sampleFrom(data, i + 40,
                    setAdd(colors, hexOf(data[i], data[i + 1], data[i + 2])))

\* Array.from(colors).slice(0, 10)
sampleColors(data) ==
    LET colors == sampleFrom(data, 0, <<>>)
    IN SubSeq(colors, 1, Min(10, Len(colors)))

NoSample == [status |-> "none"]
Resolved(colors) == [status |-> "resolved", colors |-> colors]
Rejected(message) == [status |-> "rejected", message |-> message]

\* how the browser answers: the image loads or not, the canvas has a 2d
\* context or not
Decodings == {"loaded", "no context", "load error"}

extractColorsFromImage(decoding) ==
    /\ entry = "sampler"
    /\ sampled = NoSample
    /\ sampled' =
         CASE decoding = "load error" -> Rejected("Could not load image")
           [] decoding = "no context" ->
                Rejected("Could not extract image data")
           [] OTHER -> Resolved(sampleColors(getImageData(image)))
    /\ UNCHANGED <<entry, ver, hookVars, serviceVars, rendererVars, image>>

\* ------------------------------------------------------------------------
\* Specifications
\* ------------------------------------------------------------------------
\* the requested kinds: every kind on its own, and some combinations
KindSets == {{t} : t \in AssetTypes} \cup
            {{"copy", "image"}, {"copy", "component"},
             {"copy", "palette", "image"}, AssetTypes}

InitHookVars ==
    /\ apiKey = ""
    /\ isLoading = FALSE
    /\ error = Null
    /\ currentDesign = NoDesign
    /\ assets = <<>>
    /\ calls = {}
    /\ ops = <<>>
    /\ nextId = 1
    /\ lastOp = Invoked("none", 0)

InitServiceVars ==
    /\ outcome = NoOutcome
    /\ netCalls = 0
    /\ invocations = 0

InitRendererVars ==
    /\ renderContainer = "div"
    /\ attached = TRUE
    /\ children = {}
    /\ renders = <<>>
    /\ done = <<>>
    /\ nextRender = 1
    /\ cg = [isGenerating |-> FALSE, isRendering |-> FALSE, error |-> Null,
             renderedComponents |-> <<>>, returned |-> NothingReturned]
    /\ gens = 0
    /\ multi = NoMulti

InitSamplerVars ==
    /\ image = NoImage
    /\ sampled = NoSample

InitHook ==
    /\ entry = "hook"
    /\ ver = "part_001"
    /\ InitHookVars
    /\ request = NoRequest
    /\ InitServiceVars
    /\ InitRendererVars
    /\ InitSamplerVars

InitRenderer ==
    /\ entry = "renderer"
    /\ ver = "part_001"
    /\ InitHookVars
    /\ request = NoRequest
    /\ InitServiceVars
    /\ InitRendererVars
    /\ InitSamplerVars

InitService ==
    /\ entry = "service"
    /\ ver \in Versions
    /\ InitHookVars
    /\ request \in Requests
    /\ InitServiceVars
    /\ InitRendererVars
    /\ InitSamplerVars

InitSampler ==
    /\ entry = "sampler"
    /\ ver = "part_001"
    /\ InitHookVars
    /\ request = NoRequest
    /\ InitServiceVars
    /\ InitRendererVars
    /\ image \in Images
    /\ sampled = NoSample

Init == InitHook \/ InitService \/ InitRenderer \/ InitSampler

otherThanHook == <<entry, ver, serviceVars, rendererVars, samplerVars>>

NextHook ==
    \/ \E key \in Keys : setApiKey(key) /\ UNCHANGED otherThanHook
    \/ clearError /\ UNCHANGED otherThanHook
    \/ resetDesign /\ UNCHANGED otherThanHook
    \/ \E b \in Briefs, k \in KindSets, p \in HookProfiles :
          createDesign(b, k, p) /\ UNCHANGED otherThanHook
    \/ \E t \in AssetTypes, b \in Briefs :
          handleAssetGeneration(t, b) /\ UNCHANGED otherThanHook
    \/ \E id \in AssetIds(assets) \cup {0}, np \in NewPrompts :
          regenerateAsset(id, np) /\ UNCHANGED otherThanHook
    \/ \E c \in calls : \E api \in HookApis(c.type) :
          settle(c, api) /\ UNCHANGED otherThanHook

NextService ==
    \/ callGenerateCopy
    \/ callGeneratePalette
    \/ callGenerateLayout
    \/ callGenerateImage
    \/ callGenerateAsset

\* components dropped on the canvas, and lists a caller may hand over
Batches == UNION {[1..n -> RenderComponents] : n \in 1..MaxBatch}

otherVars == <<entry, ver, hookVars, serviceVars, samplerVars>>

NextRenderer ==
    \/ entry = "renderer" /\ clearComponentError /\ UNCHANGED otherVars
    \/ entry = "renderer" /\ clearComponents /\ UNCHANGED otherVars
    \/ \E c \in RenderComponents :
          entry = "renderer" /\ renderExistingComponent(c)
          /\ UNCHANGED otherVars
    \* the Generate Component button is disabled while the hook is busy
    \/ \E key \in CgKeys :
          /\ entry = "renderer" /\ ~cg.isGenerating /\ ~cg.isRendering
          /\ generateAndRenderComponent("b1", key)
          /\ UNCHANGED otherVars
    \/ \E api \in GenerationApis :
          entry = "renderer" /\ generationSettles(api) /\ UNCHANGED otherVars
    \/ \E b \in Batches :
          entry = "renderer" /\ renderMultipleComponents(b)
          /\ UNCHANGED otherVars
    \/ \E k \in DOMAIN renders :
          entry = "renderer" /\ timerFires(k) /\ UNCHANGED otherVars
    \/ \E k \in DOMAIN renders, r \in RasterOutcomes :
          entry = "renderer" /\ renderSettles(k, r) /\ UNCHANGED otherVars
    \/ entry = "renderer" /\ pageUnloads /\ UNCHANGED otherVars

NextSampler == \E decoding \in Decodings : extractColorsFromImage(decoding)

Next == NextHook \/ NextService \/ NextRenderer \/ NextSampler

SpecHook == InitHook /\ [][NextHook]_vars
\* every Adapter call in flight eventually settles
settleSome ==
    \E c \in calls : \E api \in HookApis(c.type) :
        settle(c, api) /\ UNCHANGED otherThanHook
SpecHookLive == SpecHook /\ WF_vars(settleSome)
SpecService == InitService /\ [][NextService]_vars
SpecRenderer == InitRenderer /\ [][NextRenderer]_vars
SpecSampler == InitSampler /\ [][NextSampler]_vars
Spec == Init /\ [][Next]_vars

\* ------------------------------------------------------------------------
\* Properties
\* ------------------------------------------------------------------------
\* the operation `o` was invoked with nothing in flight and the user has
\* done nothing since
RanAlone(o) == o \in DOMAIN ops /\ ops[o].alone /\ lastOp.op = o
PendingOf(o) == {c \in calls : c.op = o}
\* ... and it is a createDesign all of whose kinds have an Adapter method
FanOutAlone(o) ==
    /\ RanAlone(o)
    /\ ops[o].kind = "create"
    /\ currentDesign.assets \subseteq StructuredTypes

\* C1: a createDesign one of whose Adapter calls failed ends, once all its
\* calls have settled, with an error and an empty asset list
C1_AllOrNothing ==
    \A o \in DOMAIN ops :
        (FanOutAlone(o) /\ ops[o].failed /\ PendingOf(o) = {})
        => (error # Null /\ assets = <<>>)

\* C2: isLoading stays true while a call of the createDesign is unsettled
C2_WaitsForAllCalls ==
    \A o \in DOMAIN ops :
        (FanOutAlone(o) /\ PendingOf(o) # {}) => isLoading = TRUE

\* a step in which the Adapter call of a regenerateAsset settles
RegenSettles(c) == c \in calls /\ c \notin calls' /\ ops[c.op].kind = "regen"

\* C3: a successful regeneration running alone removes the old asset and
\* appends exactly one new asset of the same kind, with a fresh identifier
\* and the new (else the original) prompt; the other assets are unchanged
C3_RegenerationSwap ==
    [][\A c \in calls :
        (RegenSettles(c) /\ RanAlone(c.op) /\ ~ops'[c.op].failed)
        => LET A == findAsset(assets, ops[c.op].target)
               fresh == {i \in DOMAIN assets' :
                            assets'[i].id \notin AssetIds(assets)}
               wanted == IF ops[c.op].arg # "" THEN ops[c.op].arg
                         ELSE A.metadata.prompt
           IN /\ ops[c.op].target \in AssetIds(assets)
              /\ A.id \notin AssetIds(assets')
              /\ Cardinality(fresh) = 1
              /\ \A i \in fresh :
                    /\ assets'[i].type = A.type
                    /\ assets'[i].metadata.prompt = wanted
                    /\ assets'[i].id >= nextId
                    /\ assets'[i].id # currentDesign.id
              /\ Len(assets') = Len(assets)
              /\ \A i \in DOMAIN assets :
                    assets[i].id # A.id
                    => \E j \in DOMAIN assets' : assets'[j] = assets[i]
      ]_vars

C3_Witness ==
    \E o \in DOMAIN ops :
        /\ RanAlone(o) /\ ops[o].kind = "regen"
        /\ ops[o].done /\ ~ops[o].failed
        /\ ops[o].arg = "p2"
        /\ Len(assets) = 2
        /\ \E i \in DOMAIN assets : assets[i].metadata.prompt = "p2"

\* C4: a regeneration whose Adapter call fails leaves the asset list and
\* the current design as they were and sets error to the failure message
C4_FailedRegenerationPreservesState ==
    [][/\ \A c \in calls :
            (RegenSettles(c) /\ nextId' = nextId)
            => /\ assets' = assets
               /\ currentDesign' = currentDesign
               /\ error' \in {"Network error", FailedTo(c.type)}
       /\ \A id \in AssetIds(assets) \cup {0}, np \in NewPrompts :
            regenerateAsset(id, np)
            => (assets' = assets /\ currentDesign' = currentDesign)
      ]_vars

C4_Witness ==
    \E o \in DOMAIN ops :
        /\ RanAlone(o) /\ ops[o].kind = "regen"
        /\ ops[o].done /\ ops[o].failed
        /\ ops[o].target \in AssetIds(assets)
        /\ error = "Network error"

\* C5: regenerating an identifier that is not in the list sets error to
\* "Asset not found", issues no call, keeps the list, and ends not loading
C5_NotFoundRegeneration ==
    [][\A id \in AssetIds(assets) \cup {0}, np \in NewPrompts :
        (regenerateAsset(id, np) /\ apiKey # "" /\ currentDesign.given
            /\ id \notin AssetIds(assets))
        => /\ error' = "Asset not found"
           /\ calls' = calls
           /\ assets' = assets
           /\ isLoading' = FALSE
      ]_vars

C5_Witness ==
    /\ lastOp = Invoked("regenerateAsset", 0)
    /\ apiKey # "" /\ currentDesign.given
    /\ Len(assets) > 0
    /\ error = "Asset not found"
    /\ ~isLoading

AdapterMethods == {"generateCopy", "generatePalette", "generateLayout",
                   "generateImage"}
Invoked4 == entry = "service" /\ request.method \in AdapterMethods
               /\ invocations > 0

\* C6: without a credential createDesign and the four Adapter methods give
\* the same configuration error every time, make no network call and change
\* nothing but the reported error
C6_ConfigurationFailureIdempotent ==
    /\ []((Invoked4 /\ request.key = "")
            => (outcome = Returned(Failure(NotConfigured), 0) /\ netCalls = 0))
    /\ [][\A b \in Briefs, k \in KindSets, p \in HookProfiles :
            (createDesign(b, k, p) /\ apiKey = "")
            => /\ error' = "Please provide an OpenAI API key"
               /\ UNCHANGED <<apiKey, isLoading, currentDesign, assets,
                              calls, nextId>>
         ]_vars

C6_Witness ==
    /\ entry = "hook"
    /\ lastOp = Invoked("createDesign", 0)
    /\ apiKey = ""
    /\ currentDesign.given /\ Len(assets) > 0
    /\ error = "Please provide an OpenAI API key"

\* C7: with an absent credential every generation entry point surfaces an
\* error (none returns silently) and none reaches the network
C7_AbsentCredentialSurfacesError ==
    /\ (entry = "hook" /\ apiKey = ""
            /\ lastOp.name \in {"createDesign", "regenerateAsset"})
       => error # Null
    /\ (entry = "service" /\ request.method = "generateAsset"
            /\ request.key = "" /\ invocations > 0)
       => (outcome.threw /\ netCalls = 0)

\* C8: the four Adapter methods never throw; a transport fault, missing or
\* empty content and unparseable content give success = false and a message
C8_StructuredMethodsNeverThrow ==
    Invoked4
    => /\ ~outcome.threw
       /\ outcome.ret.success \in BOOLEAN
       /\ (request.key # ""
            /\ request.api.k \in {"fault", "missing", "empty", "prose"})
          => (~outcome.ret.success /\ outcome.ret.error \notin {Null, ""})

C8_Witness ==
    /\ Invoked4
    /\ request.method = "generatePalette" /\ ver = "part_001"
    /\ request.key # ""
    /\ request.profile.given /\ Len(request.profile.colors) > 0
    /\ request.api = ApiJson(JObj(<<>>))
    /\ ~outcome.threw /\ ~outcome.ret.success

\* C9: a returned GenerationResult has success = true exactly when data is
\* present and error is absent
C9_SuccessIffDataPresent ==
    (Invoked4 /\ ~outcome.threw)
    => (outcome.ret.success
        <=> (Present(outcome.ret.data) /\ outcome.ret.error = Null))

\* C10: with a non-empty profile color list B the colors of a successful
\* generatePalette are the first 7 of B (labelled "Brand Color N", usage
\* "Brand primary") followed by the generated colors whose hex is not in B
ClaimedMerge(B, G) ==
    LET brand == [i \in 1..Len(B) |->
                    [hex |-> B[i], name |-> BrandName(i),
                     usage |-> "Brand primary"]]
        rest == SelectSeq(G, LAMBDA c : \A i \in 1..Len(B) : c.hex # B[i])
        all == brand \o rest
    IN [i \in 1..Min(7, Len(all)) |-> all[i]]

C10_PaletteMerge ==
    (/\ Invoked4 /\ request.method = "generatePalette"
     /\ ~outcome.threw /\ outcome.ret.success
     /\ request.profile.given /\ Len(request.profile.colors) > 0
     /\ request.api.k = "json" /\ HasField(request.api.v, "colors"))
    => /\ HasField(outcome.ret.data, "colors")
       /\ outcome.ret.data.f.colors =
            ClaimedMerge(request.profile.colors, request.api.v.f.colors)

\* C11: every successful generatePalette result whose response carried a
\* colors list has between 1 and 7 colors, with or without a StyleProfile
C11_PaletteSizeBound ==
    (/\ Invoked4 /\ request.method = "generatePalette"
     /\ ~outcome.threw /\ outcome.ret.success
     /\ request.api.k = "json" /\ HasField(request.api.v, "colors"))
    => /\ HasField(outcome.ret.data, "colors")
       /\ Len(outcome.ret.data.f.colors) \in 1..7

\* C12: with a StyleProfile a successful generateLayout returns gap / padding
\* fixed by the tone (plus borderRadius for playful); every other key,
\* gridAreas and breakpoints, and every key under another tone, are the AI's
ClaimedCss(css, tone) ==
    LET fixed == CASE tone = "minimal" -> [gap |-> "2rem", padding |-> "2rem"]
                   [] tone = "luxurious" -> [gap |-> "3rem", padding |-> "3rem"]
                   [] tone = "playful" ->
                        [gap |-> "1.5rem", padding |-> "1.5rem",
                         borderRadius |-> "12px"]
                   [] tone = "professional" ->
                        [gap |-> "1rem", padding |-> "1.5rem"]
                   [] OTHER -> <<>>
    IN [k \in (DOMAIN css) \cup (DOMAIN fixed) |->
            IF k \in DOMAIN fixed THEN fixed[k] ELSE css[k]]

C12_LayoutToneOverride ==
    (/\ Invoked4 /\ request.method = "generateLayout"
     /\ ~outcome.threw /\ outcome.ret.success
     /\ request.profile.given
     /\ request.api.k = "json" /\ HasField(request.api.v, "cssProperties"))
    => /\ outcome.ret.data.t = "obj"
       /\ outcome.ret.data.f =
            [request.api.v.f EXCEPT !.cssProperties =
                ClaimedCss(request.api.v.f.cssProperties, request.profile.tone)]

ComponentCall ==
    /\ entry = "service" /\ invocations > 0
    /\ request.method = "generateAsset" /\ request.type = "component"
    /\ request.key # "" /\ request.api.k = "json"

RequiredFields == {"html", "css", "description"}
OptionalDefaults ==
    [width |-> DefaultWidth, height |-> DefaultHeight, framework |-> "vanilla"]

\* the component the claim expects: the parsed fields, and the default for
\* every optional field that is missing (or, when `falsy`, is 0 or "")
Absent(v, x, falsy) == IF falsy THEN ~FieldTruthy(v, x) ELSE ~HasField(v, x)

ExpectedComponent(v, falsy) ==
    [x \in (DOMAIN Fields(v)) \cup (DOMAIN OptionalDefaults) |->
        IF x \in DOMAIN OptionalDefaults /\ Absent(v, x, falsy)
        THEN OptionalDefaults[x] ELSE v.f[x]]

ValidatedAs(falsy) ==
    ComponentCall
    => IF \E x \in RequiredFields : ~FieldTruthy(request.api.v, x)
       THEN outcome.threw
       ELSE /\ ~outcome.threw
            /\ outcome.ret.content.t = "obj"
            /\ outcome.ret.content.f =
                    ExpectedComponent(request.api.v, falsy)

ScriptFaults == {"construction fault caught", "execution fault caught"}
RasterFailures == {"html2canvas rejects", "toDataURL throws"}

\* C14: once a renderComponent call has returned or thrown, the wrapper it
\* mounted is no child of the container, and the container holds no wrapper
\* when no call is in flight
C14_RasterizerCleanup ==
    entry = "renderer"
    => /\ \A k \in DOMAIN done : k \notin children
       /\ (DOMAIN renders = {}) => (children = {})

\* C15: with the container in place and a rasterization that succeeds, a
\* component whose script throws at construction or execution is rendered:
\* the call returns a bitmap of the component's declared width and height
C15_ScriptIsolation ==
    \A k \in DOMAIN done :
        (/\ done[k].component.javascript \in {"throw 1", "(("}
         /\ done[k].mounted
         /\ done[k].raster \notin RasterFailures
         /\ renderContainer # Null)
        => /\ ~done[k].threw
           /\ done[k].raster = "bitmap"
           /\ done[k].rendered.width = done[k].component.width
           /\ done[k].rendered.height = done[k].component.height
           /\ done[k].rendered.component = done[k].component

C15_Witness ==
    \E k \in DOMAIN done :
        /\ done[k].script \in ScriptFaults
        /\ done[k].raster = "bitmap"
        /\ ~done[k].threw
        /\ done[k].rendered.width = 320

\* the results renderMultipleComponents owes for a log of attempts
RECURSIVE Survivors(_, _, _)
Survivors(components, log, i) ==
    IF i > Len(log) THEN <<>>
    ELSE (IF log[i].threw THEN <<>>
          ELSE <<RenderedComponent(components[i])>>)
         \o Survivors(components, log, i + 1)

\* C16: renderMultipleComponents never throws, attempts every component one
\* after another even after a failure, and returns the results of the
\* successful renders in input order
C16_PartialSuccess ==
    /\ multi.state \in {"idle", "running", "returned"}
    /\ Cardinality({k \in DOMAIN renders :
                        renders[k].caller = "multiple"}) <= 1
    /\ (multi.state = "returned")
       => /\ Len(multi.log) = Len(multi.components)
          /\ \A i, j \in DOMAIN multi.log :
                i < j => multi.log[i].call < multi.log[j].call
          /\ multi.rendered = Survivors(multi.components, multi.log, 1)

C16_Witness ==
    /\ multi.state = "returned"
    /\ Len(multi.components) = 2
    /\ multi.log[1].threw /\ ~multi.log[2].threw
    /\ Len(multi.rendered) = 1

\* C17: once destroy() has run every renderComponent call fails, mounts no
\* wrapper and yields no bitmap, and a further destroy() changes nothing
C17_DestroyedSurfaceIsFatal ==
    [][(entry = "renderer" /\ ~attached)
        => /\ ~attached' /\ renderContainer' = renderContainer
           /\ children' = children
           /\ DOMAIN renders' \subseteq DOMAIN renders
           /\ \A k \in DOMAIN done' :
                (k \notin DOMAIN done) => done'[k].threw
           /\ \A k \in DOMAIN done' :
                (k >= nextRender)
                => /\ ~done'[k].mounted
                   /\ done'[k].message = NotInitialized
           /\ Len(cg'.renderedComponents) <= Len(cg.renderedComponents)
           /\ Len(multi'.rendered) <= Len(multi.rendered)
      ]_vars

C17_Witness ==
    /\ entry = "renderer" /\ ~attached
    /\ \E k \in DOMAIN done : ~done[k].mounted /\ done[k].threw
    /\ cg.error = NotInitialized

\* C18: at most one renderComponent call uses the container at a time: it
\* never holds the wrappers of two calls in flight
C18_ExclusiveSurface ==
    Cardinality(children \cap DOMAIN renders) <= 1

\* C19: every asset of the session's list, and every Asset returned by
\* AIService.generateAsset, carries in its metadata the prompt, the model and
\* the temperature used in the Adapter call that produced it
C19_AssetVersioningMetadata ==
    /\ (entry = "hook")
       => \A i \in DOMAIN assets :
            /\ assets[i].metadata.prompt \in Briefs \cup (NewPrompts \ {""})
            /\ assets[i].metadata.model = UsedModel(ver, assets[i].type)
            /\ assets[i].metadata.temperature =
                    UsedTemperature(ver, assets[i].type)
    /\ (/\ entry = "service" /\ invocations > 0
        /\ request.method = "generateAsset" /\ ~outcome.threw)
       => /\ outcome.ret.metadata.prompt = request.brief
          /\ outcome.ret.metadata.model = UsedModel(ver, request.type)
          /\ outcome.ret.metadata.temperature =
                UsedTemperature(ver, request.type)

SampledPixels == {p \in 0..(image.width * image.height - 1) : p % 10 = 0}
SampledShades == {PixelShade(image, p) : p \in SampledPixels}
FirstAt(shade) ==
    CHOOSE p \in SampledPixels :
        /\ PixelShade(image, p) = shade
        /\ \A q \in SampledPixels : PixelShade(image, q) = shade => p <= q

DigitValue(c) == CHOOSE v \in 0..15 : HexDigits[v + 1] = c
WellFormedHex(hex) ==
    /\ Len(hex) = 7 /\ hex[1] = "#"
    /\ \A i \in 2..7 : hex[i] \in Range(HexDigits)
Decode(hex) ==
    <<16 * DigitValue(hex[2]) + DigitValue(hex[3]),
      16 * DigitValue(hex[4]) + DigitValue(hex[5]),
      16 * DigitValue(hex[6]) + DigitValue(hex[7])>>

CreateSettles(c) == c \in calls /\ c \notin calls' /\ ops[c.op].kind = "create"
\* the messages generateAsset can throw for a call of this kind
FailureMessages(c) ==
    {CatchMessage(generateAsset(ver, AIService("sk-1"), c.type, c.prompt,
                                c.designId, c.profile, api).exc) :
        api \in {a \in HookApis(c.type) :
                    generateAsset(ver, AIService("sk-1"), c.type, c.prompt,
                                  c.designId, c.profile, a).threw}}

\* C21: the first call of a createDesign to fail sets error to its own
\* message, and a call of that createDesign failing later leaves error alone
C21_FirstRejectionWins ==
    [][\A c \in calls :
        (CreateSettles(c) /\ nextId' = nextId)
        => IF ops[c.op].failed
           THEN error' = error
           ELSE error' \in FailureMessages(c)
      ]_vars

\* two calls of one createDesign have failed with different messages
C21_Witness ==
    \E o \in DOMAIN ops :
        /\ FanOutAlone(o) /\ ops[o].failed /\ PendingOf(o) = {}
        /\ currentDesign.assets = {"copy", "image"}
        /\ assets = <<>>
        /\ error = "Failed to generate copy"

\* a structured kind was handed to AIService.generateAsset
AssetInvoked ==
    /\ entry = "service" /\ request.method = "generateAsset"
    /\ request.type \in StructuredTypes
    /\ invocations > 0
\* what the Adapter method called by that generateAsset returned
AdapterResult ==
    adapterCall(ver, AIService(request.key), request.type, request.brief,
                NoProfile, request.api)

\* C22: AIService.generateAsset returns no Asset whose content is absent;
\* for the four structured kinds a result with success = false or without
\* data is thrown with the result's error message
C22_NeverAbsentContent ==
    AssetInvoked
    => /\ ~outcome.threw => Present(outcome.ret.content)
       /\ (~AdapterResult.ret.success \/ ~Truthy(AdapterResult.ret.data))
          => /\ outcome.threw
             /\ AdapterResult.ret.error \notin {Null, ""}
                => outcome.exc = ErrorOf(AdapterResult.ret.error)

\* C23: a createDesign with a credential issues, before it awaits anything,
\* exactly one Adapter call for every requested kind
C23_OneCallPerKind ==
    [][\A b \in Briefs, k \in KindSets, p \in HookProfiles :
        (createDesign(b, k, p) /\ apiKey # "")
        => /\ {c.type : c \in calls' \ calls} = k
           /\ Cardinality(calls' \ calls) = Cardinality(k)
      ]_vars

\* C24: once the one-kind createDesign that handleAssetGeneration issues has
\* succeeded, the assets listed before it are still listed, next to the new one
C24_GeneratedAssetIsAdded ==
    \A o \in DOMAIN ops :
        (/\ RanAlone(o) /\ ops[o].kind = "create"
         /\ Cardinality(currentDesign.assets) = 1
         /\ ops[o].done /\ ~ops[o].failed)
        => /\ ops[o].before \subseteq AssetIds(assets)
           /\ Len(assets) = Cardinality(ops[o].before) + 1

\* renderComponent calls in flight, by the hook function awaiting them
InFlightFor(caller) == {k \in DOMAIN renders : renders[k].caller = caller}
\* one generateAndRenderComponent call is under way and no other hook call,
\* and none has returned since it began
SingleGeneration ==
    /\ InFlightFor("existing") = {}
    /\ gens + Cardinality(InFlightFor("generate")) = 1
    /\ cg.returned = NothingReturned
FlagsDown(state) == ~state.isGenerating /\ ~state.isRendering

\* C25: a generateAndRenderComponent call running alone is generating, then
\* rendering, and ends with both flags false; it appends and returns the
\* RenderedComponent when generation and rendering succeeded, and otherwise
\* sets error, returns null and leaves renderedComponents alone; with a blank
\* key it sets "API key is required", returns null and generates nothing
C25_GenerateThenRender ==
    [][/\ \A key \in CgKeys :
            generateAndRenderComponent("b1", key)
            => IF Trim(key) = ""
               THEN /\ cg'.error = "API key is required"
                    /\ cg'.returned = NoRendered
                    /\ gens' = gens
                    /\ cg'.renderedComponents = cg.renderedComponents
                    /\ cg'.isGenerating = cg.isGenerating
                    /\ cg'.isRendering = cg.isRendering
               ELSE (gens = 0 /\ renders = <<>>)
                    => /\ cg'.isGenerating /\ ~cg'.isRendering
                       /\ gens' = 1
       /\ (SingleGeneration /\ gens' < gens)
          => /\ cg'.renderedComponents = cg.renderedComponents
             /\ IF InFlightFor("generate")' = {}
                THEN /\ FlagsDown(cg')
                     /\ cg'.error # Null
                     /\ cg'.returned = NoRendered
                ELSE /\ ~cg'.isGenerating /\ cg'.isRendering
                     /\ cg'.returned = NothingReturned
       /\ \A k \in InFlightFor("generate") :
            (SingleGeneration /\ k \notin DOMAIN renders')
            => /\ FlagsDown(cg')
               /\ k \in DOMAIN done'
                  => (done'[k].threw <=> cg'.returned = NoRendered)
               /\ IF cg'.returned = NoRendered
                  THEN /\ cg'.error # Null
                       /\ cg'.renderedComponents = cg.renderedComponents
                  ELSE /\ cg'.returned =
                            RenderedComponent(renders[k].component)
                       /\ cg'.renderedComponents =
                            Append(cg.renderedComponents, cg'.returned)
      ]_vars

\* a call that ran alone has returned the component it appended
C25_Witness ==
    /\ entry = "renderer"
    /\ gens = 0 /\ renders = <<>>
    /\ FlagsDown(cg)
    /\ cg.error = Null
    /\ Len(cg.renderedComponents) = 1
    /\ cg.returned = cg.renderedComponents[1]

\* C26: while there is a current design, every listed asset carries its id
C26_DesignOwnership ==
    currentDesign.given
    => \A i \in DOMAIN assets : assets[i].designId = currentDesign.id

\* C27: without a current design the asset list is empty
C27_ResetLeavesNoAssets == ~currentDesign.given => assets = <<>>

\* the list holds assets of the current design only and the call belongs to it
SameDesign(c) ==
    /\ currentDesign.given /\ c.designId = currentDesign.id
    /\ \A i \in DOMAIN assets : assets[i].designId = currentDesign.id

\* C28: a regenerateAsset that completes within its design leaves the
\* number of listed assets as it was, whether or not another one overlaps it
C28_RegenerationKeepsCount ==
    [][\A c \in calls :
        (RegenSettles(c) /\ SameDesign(c)) => Len(assets') = Len(assets)
      ]_vars

\* C29: when every Adapter call in flight eventually settles, a state with
\* isLoading true is always followed by a state with isLoading false
C29_LoadingEnds == isLoading ~> ~isLoading

\* a createDesign and a regenerateAsset have each ended, the latter by a
\* failure, and nothing is loading
C29_Witness ==
    /\ entry = "hook"
    /\ ~isLoading /\ calls = {}
    /\ Len(assets) = 1
    /\ \E o \in DOMAIN ops :
          ops[o].kind = "regen" /\ ops[o].done /\ ops[o].failed
    /\ error = "Failed to generate copy"

\* C30: the colors of a successful generatePalette (src/unnamed/part_001)
\* called with a StyleProfile hold no hex value twice
C30_MergedPaletteDistinct ==
    (/\ Invoked4 /\ request.method = "generatePalette" /\ ver = "part_001"
     /\ ~outcome.threw /\ outcome.ret.success
     /\ request.profile.given /\ Len(request.profile.colors) > 0
     /\ HasField(outcome.ret.data, "colors"))
    => LET colors == outcome.ret.data.f.colors
       IN \A i, j \in DOMAIN colors :
            colors[i].hex = colors[j].hex => i = j

====
